---- MODULE Spec2Model ----
(***************************************************************************)
(* A model of candidate_models: the PyTorch model adapter                  *)
(* (models/implementations/pytorch.py) and the score reporting script      *)
(* (plot/global_score.py).                                                 *)
(*                                                                         *)
(* A layer name is held as the sequence of its parts, i.e. the value of    *)
(* layer_name.split('.'); torch forbids '.' inside a child name, so the    *)
(* dot-joined string and the sequence of parts determine each other.       *)
(* A module is identified by its path: the child names from the root.      *)
(***************************************************************************)
EXTENDS Integers, Sequences, FiniteSets, TLC

VARIABLES
    model,      \* self._model: the module tree built by the constructor
    training,   \* self._model.training
    hooks,      \* the forward hooks registered on submodules, in registration order
    results,    \* the layer_results dictionary of every _get_activations call
    calls,      \* the history of _get_activations calls and how each ended
    passes,     \* the number of inference passes run so far
    gens,       \* the generators returned by layers()
    graph       \* the nodes of the last graph() result

adapterVars == <<model, training, hooks, results, calls, passes, gens, graph>>

VARIABLES
    plot,       \* _plot_score: its arguments x and y and the fitted line it drew
    image       \* _load_image: the image file and the image returned for it

VARIABLES
    files,      \* neural.csv, fixture.json and data.tex
    run,        \* the last prepare_data call: its arguments, its frames, how it ended
    script      \* a direct run of global_score.py: where it stands, what it saved

reportVars == <<files, run, script>>

vars == <<adapterVars, plot, image, reportVars>>

----------------------------------------------------------------------------
(* Bounds *)

MaxModules == 3     \* modules of a network whose activations are asked for
MaxLayerModules == 4    \* modules of a network whose layers are listed
MaxCallsBetween == 1    \* _get_activations calls among the layers() calls
MaxCalls == 2       \* _get_activations calls in one behaviour
MaxNames == 2       \* layer names in one call
MaxBatch == 2       \* images in one call
MaxGens == 2        \* layers() generators in one behaviour
MaxPoints == 4      \* points given to _plot_score
MaxX == 3           \* the x values of the points are 0..MaxX
MaxSide == 2        \* width and height of an image file
MaxModels == 3      \* models given to prepare_data
MaxRuns == 2        \* prepare_data calls in one behaviour
MaxCached == 1      \* models of a neural.csv left by an earlier script run

----------------------------------------------------------------------------
(* Module trees *)

LeafClasses == {"Conv2d", "ReLU"}
CompositeClasses == {"Sequential", "AlexNet"}

\* The child names a container gives its children, in registration order:
\* a Sequential numbers them, another class registers attributes.
ChildNames(cls) ==
    IF cls = "Sequential" THEN <<"0", "1", "2", "3", "4", "5">>
    ELSE <<"features", "avgpool", "classifier", "fc", "aux", "head">>

Leaf(cls) == [cls |-> cls, modules |-> << >>]

\* A container of class cls over the children kids: _modules is an ordered
\* dictionary, held as the sequence of its (name, module) items.
Composite(cls, kids) ==
    [cls |-> cls,
     modules |-> [i \in 1..Len(kids) |-> <<ChildNames(cls)[i], kids[i]>>]]

RECURSIVE TreesOfSize(_), ForestsOfSize(_)
TreesOfSize(n) ==
    IF n = 1 THEN {Leaf(c) : c \in LeafClasses}
    ELSE {Composite(c, kids) : c \in CompositeClasses, kids \in ForestsOfSize(n - 1)}

ForestsOfSize(m) ==
    IF m = 0 THEN {<< >>}
    ELSE UNION {{<<t>> \o f : t \in TreesOfSize(k), f \in ForestsOfSize(m - k)} : k \in 1..m}

\* The networks a constructor of model_constructors may build, up to a number
\* of modules: the root has children.
ModuleTrees(max) == UNION {TreesOfSize(n) : n \in 2..max}

\* part in module._modules
HasChild(module, part) ==
    \E i \in 1..Len(module.modules) : module.modules[i][1] = part

\* module._modules.get(part), for a part that is a key
ModulesGet(module, part) ==
    module.modules[CHOOSE i \in 1..Len(module.modules) : module.modules[i][1] = part][2]

----------------------------------------------------------------------------
(* _get_activations *)

\* walk_pytorch_module: module._modules.get(part) for every part in turn, with
\* the assertion that the result is not None.  at is the path walked so far.
RECURSIVE WalkParts(_, _, _, _)
WalkParts(module, layer_name, i, at) ==
    IF i > Len(layer_name) THEN [ok |-> TRUE, module |-> at]
    ELSE IF ~HasChild(module, layer_name[i])
         THEN [ok |-> FALSE, layer |-> layer_name, part |-> layer_name[i]]
         ELSE WalkParts(ModulesGet(module, layer_name[i]), layer_name, i + 1,
                        Append(at, layer_name[i]))

\* A walk that looks the parts up without the assertion and asserts only after
\* the loop: it reports the last part of the name.
WalkAssertAfterLoop(module, layer_name) ==
    LET r == WalkParts(module, layer_name, 1, << >>)
    IN IF r.ok THEN r ELSE [r EXCEPT !.part = layer_name[Len(layer_name)]]

walk_pytorch_module(module, layer_name) == WalkParts(module, layer_name, 1, << >>)

\* A hook whose lambda reads the loop variable when it runs: every hook of the
\* call stores under the last name of the list.
HookNameLateBinding(layer_names, i) == layer_names[Len(layer_names)]

\* The name a hook stores under: the lambda binds name=layer_name when it is made.
HookName(layer_names, i) == layer_names[i]

\* for layer_name in layer_names: walk, then register_forward_hook.  c is the
\* call whose layer_results the hook writes to.  The loop ends at the first
\* name whose walk fails; the hooks registered before it stay.
RECURSIVE RegisterHooks(_, _, _, _, _)
RegisterHooks(root, layer_names, i, c, hs) ==
    IF i > Len(layer_names) THEN [ok |-> TRUE, hooks |-> hs]
    ELSE LET layer == walk_pytorch_module(root, layer_names[i])
         IN IF ~layer.ok
            THEN [ok |-> FALSE, hooks |-> hs, layer |-> layer.layer, part |-> layer.part]
            ELSE RegisterHooks(root, layer_names, i + 1, c,
                    Append(hs, [module |-> layer.module, call |-> c,
                                name |-> HookName(layer_names, i)]))

\* The order in which the modules of a network finish their forward call: a
\* container calls its children in order and returns after them.
RECURSIVE ForwardOrder(_, _)
RECURSIVE ForwardKids(_, _, _)
ForwardOrder(module, at) == Append(ForwardKids(module, at, 1), at)

ForwardKids(module, at, i) ==
    IF i > Len(module.modules) THEN << >>
    ELSE ForwardOrder(module.modules[i][2], Append(at, module.modules[i][1]))
         \o ForwardKids(module, at, i + 1)

\* output.cpu().data.numpy() of a module in one pass: an array whose leading
\* dimension is the batch size.
Output(at, pass, images) == [module |-> at, pass |-> pass, dim0 |-> images]

\* store_layer_output: layer_results[layer_name] = output
store_layer_output(res, h, output) ==
    [res EXCEPT ![h.call] =
        [k \in DOMAIN res[h.call] \cup {h.name} |->
            IF k = h.name THEN output ELSE res[h.call][k]]]

\* The hooks of one module fire in registration order when its forward returns.
RECURSIVE FireHooks(_, _, _, _)
FireHooks(hs, i, output, res) ==
    IF i > Len(hs) THEN res
    ELSE FireHooks(hs, i + 1, output,
            IF hs[i].module = output.module THEN store_layer_output(res, hs[i], output)
            ELSE res)

\* self._model(images)
RECURSIVE Forward(_, _, _, _, _, _)
Forward(order, i, hs, pass, images, res) ==
    IF i > Len(order) THEN res
    ELSE Forward(order, i + 1, hs, pass, images,
                 FireHooks(hs, 1, Output(order[i], pass, images), res))

EmptyDict == [k \in {} |-> 0]

----------------------------------------------------------------------------
(* layers() and graph() *)

\* The module at a path of the tree.
RECURSIVE ModuleAt(_, _, _)
ModuleAt(module, at, i) ==
    IF i > Len(at) THEN module ELSE ModuleAt(ModulesGet(module, at[i]), at, i + 1)

\* layers(): a new generator over self._model; nothing of it has run yet.  A
\* generator is the stack of its suspended _layers frames, each the module it
\* was called on (its path is also its name_prefix, None for the root) and how
\* many items of module._modules.items() its loop has taken.
FreshGenerator == [stack |-> <<[at |-> << >>, taken |-> 0]>>, done |-> FALSE]

\* A layers() that keeps one generator and hands out where it stands.
NewGeneratorKept(root) == IF gens = << >> THEN FreshGenerator ELSE gens[Len(gens)].gen

NewGenerator(root) == FreshGenerator

\* A leaf named by its path alone.
LeafNameNoClass(name_prefix, module) == name_prefix

\* module_name = name_prefix + SUBMODULE_SEPARATOR + module.__class__.__name__
LeafName(name_prefix, module) == Append(name_prefix, module.cls)

\* next(generator): run the frames until one yields or the outermost returns.
\* A frame on a module without children yields its name and returns; a frame
\* on a container calls _layers on its next child, or returns after the last.
RECURSIVE Resume(_, _)
Resume(root, stack) ==
    IF stack = << >> THEN [stack |-> << >>, stop |-> TRUE]
    ELSE LET top == stack[Len(stack)]
             rest == SubSeq(stack, 1, Len(stack) - 1)
             module == ModuleAt(root, top.at, 1)
         IN IF Len(module.modules) = 0
            THEN [stack |-> rest, stop |-> FALSE,
                  item |-> <<LeafName(top.at, module), top.at>>]
            ELSE IF top.taken < Len(module.modules)
            THEN Resume(root,
                    Append(Append(rest, [top EXCEPT !.taken = @ + 1]),
                           [at |-> Append(top.at, module.modules[top.taken + 1][1]),
                            taken |-> 0]))
            ELSE Resume(root, rest)

\* list(generator): everything a generator still yields.
RECURSIVE Drain(_, _)
Drain(root, stack) ==
    LET r == Resume(root, stack)
    IN IF r.stop THEN << >> ELSE <<r.item>> \o Drain(root, r.stack)

----------------------------------------------------------------------------
(* The inputs of the model *)

\* The paths of the modules of a tree, the root's (the empty path) included.
RECURSIVE Paths(_)
Paths(module) ==
    {<< >>} \cup UNION {{<<module.modules[i][1]>> \o p : p \in Paths(module.modules[i][2])}
                        : i \in 1..Len(module.modules)}

\* The layer names a caller asks for: the paths of the submodules, the names
\* in the style of layers() (a path and the class name of its module), which
\* have a part that is no child (of the root, of a container, of a leaf), and
\* a name with a part after the one that is no child.
LayerNames(root) ==
    (Paths(root) \ {<< >>})
    \cup {Append(p, ModuleAt(root, p, 1).cls) : p \in Paths(root)}
    \cup {<<"avgpool", "0">>}

RECURSIVE SeqsUpTo(_, _)
SeqsUpTo(S, n) ==
    IF n = 0 THEN {<< >>}
    ELSE SeqsUpTo(S, n - 1) \cup {Append(q, x) : q \in SeqsUpTo(S, n - 1), x \in S}

----------------------------------------------------------------------------
(* The adapter's operations *)

InitAdapter(max) ==
    /\ model \in ModuleTrees(max)
    /\ training = TRUE
    /\ hooks = << >>
    /\ results = << >>
    /\ calls = << >>
    /\ passes = 0
    /\ gens = << >>
    /\ graph = << >>

\* _get_activations(images, layer_names)
GetActivations(images, layer_names) ==
    /\ Len(calls) < MaxCalls
    /\ LET c == Len(calls) + 1
           reg == RegisterHooks(model, layer_names, 1, c, hooks)
           fresh == Append(results, EmptyDict)
       IN IF ~reg.ok
          THEN /\ hooks' = reg.hooks
               /\ results' = fresh
               /\ calls' = Append(calls, [layer_names |-> layer_names, images |-> images,
                                          raised |-> TRUE, layer |-> reg.layer,
                                          part |-> reg.part, pass |-> 0,
                                          returned |-> EmptyDict])
               /\ UNCHANGED <<training, passes>>
          ELSE LET res == Forward(ForwardOrder(model, << >>), 1, reg.hooks,
                                  passes + 1, images, fresh)
               IN /\ hooks' = reg.hooks
                  /\ training' = FALSE
                  /\ passes' = passes + 1
                  /\ results' = res
                  /\ calls' = Append(calls, [layer_names |-> layer_names, images |-> images,
                                             raised |-> FALSE, layer |-> << >>,
                                             part |-> "", pass |-> passes + 1,
                                             returned |-> res[c]])
    /\ UNCHANGED <<model, gens, graph>>

\* layers()
Layers ==
    /\ Len(gens) < MaxGens
    /\ gens' = Append(gens, [gen |-> NewGenerator(model), yielded |-> << >>,
                             born |-> Len(calls)])
    /\ UNCHANGED <<model, training, hooks, results, calls, passes, graph>>

\* next() on a generator that layers() returned
NextLayer(g) ==
    /\ ~gens[g].gen.done
    /\ LET r == Resume(model, gens[g].gen.stack)
       IN gens' = [gens EXCEPT ![g] =
                     [@ EXCEPT !.gen = [stack |-> r.stack, done |-> r.stop],
                               !.yielded = IF r.stop THEN @ ELSE Append(@, r.item)]]
    /\ UNCHANGED <<model, training, hooks, results, calls, passes, graph>>

\* graph(): one node per item of self.layers(), no edges
Graph ==
    /\ LET items == Drain(model, NewGenerator(model).stack)
       IN graph' = [i \in 1..Len(items) |->
                      [name |-> items[i][1], object |-> items[i][2],
                       type |-> ModuleAt(model, items[i][2], 1).cls]]
    /\ UNCHANGED <<model, training, hooks, results, calls, passes, gens>>

\* The names a caller has from layers() or graph(): of every item seen, the
\* name it was yielded with and the path of the module it was yielded with.
SeenNames ==
    UNION {UNION {{gens[g].yielded[i][1], gens[g].yielded[i][2]} :
                    i \in 1..Len(gens[g].yielded)} : g \in 1..Len(gens)}
    \cup UNION {{graph[i].name, graph[i].object} : i \in 1..Len(graph)}

\* Calls of _get_activations on one model.
NextAdapter ==
    /\ \E images \in 1..MaxBatch, layer_names \in SeqsUpTo(LayerNames(model), MaxNames) :
          GetActivations(images, layer_names)
    /\ UNCHANGED <<plot, image, reportVars>>

\* layers() and graph() on one model, with _get_activations calls in between
\* that ask for a layer the caller has seen.
NextLayers ==
    /\ \/ Layers
       \/ \E g \in 1..Len(gens) : NextLayer(g)
       \/ Graph
       \/ \E layer_name \in SeenNames :
             Len(calls) < MaxCallsBetween /\ GetActivations(1, <<layer_name>>)
    /\ UNCHANGED <<plot, image, reportVars>>

\* No model adapter has been constructed.
IdleAdapter ==
    /\ model = Leaf("Conv2d")
    /\ training = TRUE
    /\ hooks = << >>
    /\ results = << >>
    /\ calls = << >>
    /\ passes = 0
    /\ gens = << >>
    /\ graph = << >>

IdlePlot == plot = [pc |-> "idle"]

IdleImage == image = [pc |-> "idle"]

NoFile == [exists |-> FALSE]

\* A fresh checkout: no cache, no output file, prepare_data not called yet,
\* the script not run.
InitReport ==
    /\ files = [neural |-> NoFile, fixture |-> NoFile, tex |-> NoFile]
    /\ run = [pc |-> "idle", n |-> 0]
    /\ script = [pc |-> "idle"]

Init == InitAdapter(MaxModules) /\ IdlePlot /\ IdleImage /\ InitReport

InitLayers == InitAdapter(MaxLayerModules) /\ IdlePlot /\ IdleImage /\ InitReport

Next == NextAdapter

Spec == Init /\ [][Next]_vars

SpecLayers == InitLayers /\ [][NextLayers]_vars

----------------------------------------------------------------------------
(* Properties of _get_activations *)

Range(q) == {q[i] : i \in 1..Len(q)}

\* The names that resolve to a submodule: the paths of the tree below the root.
Resolves(layer_name) == layer_name \in Paths(model) \ {<< >>}

\* The inference passes run up to and including call c.
PassesUpTo(c) == Cardinality({d \in 1..c : ~calls[d].raised})

\* C1: a call whose layer names all resolve returns, whatever calls came
\* before it, a mapping whose keys are exactly the requested names, each
\* mapped to the output of the submodule of that name in the pass of this
\* call, with the number of images as leading dimension.
C1_ActivationsOfRequestedLayers ==
    \A c \in 1..Len(calls) :
        (\A n \in Range(calls[c].layer_names) : Resolves(n))
        => /\ ~calls[c].raised
           /\ DOMAIN calls[c].returned = Range(calls[c].layer_names)
           /\ \A n \in DOMAIN calls[c].returned :
                 /\ calls[c].returned[n].module = n
                 /\ calls[c].returned[n].pass = PassesUpTo(c)
                 /\ calls[c].returned[n].dim0 = calls[c].images

\* A second call for two different layers, one of them asked for by an earlier
\* call that ran its pass with another number of images.
C1_Witness ==
    /\ Len(calls) = 2
    /\ ~calls[1].raised /\ ~calls[2].raised
    /\ Cardinality(DOMAIN calls[2].returned) = 2
    /\ DOMAIN calls[1].returned \cap DOMAIN calls[2].returned # {}
    /\ calls[1].images # calls[2].images

\* The first name of a list that does not resolve, and its first part that is
\* no child of the module reached by the parts before it.
FirstUnresolved(layer_names) ==
    layer_names[CHOOSE i \in 1..Len(layer_names) :
                   /\ ~Resolves(layer_names[i])
                   /\ \A j \in 1..(i - 1) : Resolves(layer_names[j])]

FirstBadPart(layer_name) ==
    layer_name[CHOOSE i \in 1..Len(layer_name) :
                  /\ SubSeq(layer_name, 1, i) \notin Paths(model)
                  /\ SubSeq(layer_name, 1, i - 1) \in Paths(model)]

\* C2: a call with a layer name that does not resolve fails with an error that
\* names that layer name and its first part that did not resolve, and runs no
\* inference pass: the passes run are those of the calls that returned.
C2_UnresolvedLayerFails ==
    /\ passes = PassesUpTo(Len(calls))
    /\ \A c \in 1..Len(calls) :
          (\E n \in Range(calls[c].layer_names) : ~Resolves(n))
          => /\ calls[c].raised
             /\ calls[c].layer = FirstUnresolved(calls[c].layer_names)
             /\ calls[c].part = FirstBadPart(calls[c].layer)
             /\ calls[c].pass = 0

\* Failing calls of the three kinds: a part after a leaf, and a part that is
\* no child of the root with another part after it, the second after a name
\* that did resolve.
C2_Witness ==
    /\ Len(calls) = 2
    /\ calls[1].raised /\ calls[2].raised
    /\ Len(calls[1].layer) > 1
    /\ calls[1].part = calls[1].layer[Len(calls[1].layer)]
    /\ Len(ModuleAt(model, SubSeq(calls[1].layer, 1, Len(calls[1].layer) - 1), 1).modules) = 0
    /\ Len(calls[2].layer_names) = 2
    /\ calls[2].layer = calls[2].layer_names[2]
    /\ calls[2].part = calls[2].layer[1]
    /\ Len(calls[2].layer) = 2
    /\ passes = 0

\* C13: the mapping a call returned stays as it was returned: after any later
\* call the layer_results dictionary of the call has the keys and the arrays
\* it had when the call returned it.
C13_ReturnedMappingUnchanged ==
    \A c \in 1..Len(calls) :
        ~calls[c].raised => results[c] = calls[c].returned

\* C15: a call that failed on a layer name left no hook of its own on any
\* submodule, whatever names before the failing one did resolve.
C15_FailedCallLeavesNoHook ==
    \A c \in 1..Len(calls) :
        calls[c].raised => \A i \in 1..Len(hooks) : hooks[i].call # c

----------------------------------------------------------------------------
(* Properties of layers() and graph() *)

\* The paths of the leaf modules: the modules without children.
LeafPaths == {p \in Paths(model) : Len(ModuleAt(model, p, 1).modules) = 0}

\* The place of a child name among the children of a module.
ChildIndex(module, name) ==
    CHOOSE i \in 1..Len(module.modules) : module.modules[i][1] = name

\* Leaf p comes before leaf q in depth-first order: where their paths part,
\* p goes into the earlier child.
Before(p, q) ==
    \E i \in 1..Len(p) :
        /\ i <= Len(q)
        /\ SubSeq(p, 1, i - 1) = SubSeq(q, 1, i - 1)
        /\ p[i] # q[i]
        /\ LET parent == ModuleAt(model, SubSeq(p, 1, i - 1), 1)
           IN ChildIndex(parent, p[i]) < ChildIndex(parent, q[i])

\* The j-th leaf in depth-first order.
NthLeaf(j) ==
    CHOOSE p \in LeafPaths : Cardinality({q \in LeafPaths : Before(q, p)}) = j - 1

\* The pair layers() owes for a leaf: its path, a dot and its class name, and
\* the module itself.
LeafItem(p) == <<Append(p, ModuleAt(model, p, 1).cls), p>>

\* C5: what a generator of layers() has yielded is, item by item, the leaves
\* in depth-first child order, each with its path and class name for a name,
\* and no composite module; a generator that has ended has yielded every
\* leaf.  The nodes of graph() are the same names in the same order.
C5_LayersYieldLeavesDepthFirst ==
    /\ \A g \in 1..Len(gens) :
          /\ Len(gens[g].yielded) <= Cardinality(LeafPaths)
          /\ \A j \in 1..Len(gens[g].yielded) : gens[g].yielded[j] = LeafItem(NthLeaf(j))
          /\ gens[g].gen.done => Len(gens[g].yielded) = Cardinality(LeafPaths)
    /\ graph # << >> =>
          /\ Len(graph) = Cardinality(LeafPaths)
          /\ \A j \in 1..Len(graph) :
                /\ <<graph[j].name, graph[j].object>> = LeafItem(NthLeaf(j))
                /\ graph[j].type = ModuleAt(model, NthLeaf(j), 1).cls

\* A generator that ended on a tree with a leaf below a container that is not
\* the root's first child, and a graph of it.
C5_Witness ==
    /\ \E g \in 1..Len(gens) :
          /\ gens[g].gen.done
          /\ Len(gens[g].yielded) = 2
          /\ Len(gens[g].yielded[2][2]) = 2
    /\ Len(graph) = 2
    /\ Cardinality(Paths(model)) = 4

\* C4: any two generators of layers() agree on the items both have yielded,
\* and two that have ended have yielded the same sequence, however far the
\* earlier ones were consumed and whatever _get_activations calls were made.
C4_LayersRestartable ==
    \A g \in 1..Len(gens), h \in 1..Len(gens) :
        /\ \A j \in 1..Len(gens[g].yielded) :
              j <= Len(gens[h].yielded) => gens[g].yielded[j][1] = gens[h].yielded[j][1]
        /\ (gens[g].gen.done /\ gens[h].gen.done) => gens[g].yielded = gens[h].yielded
        /\ (gens[g].gen.done /\ ~gens[h].gen.done)
              => Len(gens[h].yielded) <= Len(gens[g].yielded)

\* A generator left after its first item, then a _get_activations call, then
\* a second generator, made after the call and consumed to its end.
C4_Witness ==
    /\ Len(gens) = 2
    /\ Len(gens[1].yielded) = 1 /\ ~gens[1].gen.done
    /\ gens[2].born >= 1
    /\ gens[2].gen.done /\ Len(gens[2].yielded) = 2
    /\ hooks # << >>

\* C14: every name that layers() yielded, and every node name of graph(), is
\* resolved by the path walk of _get_activations to the module it came with.
C14_LayerNamesResolve ==
    /\ \A g \in 1..Len(gens) : \A j \in 1..Len(gens[g].yielded) :
          LET layer == walk_pytorch_module(model, gens[g].yielded[j][1])
          IN layer.ok /\ layer.module = gens[g].yielded[j][2]
    /\ \A j \in 1..Len(graph) :
          LET layer == walk_pytorch_module(model, graph[j].name)
          IN layer.ok /\ layer.module = graph[j].object

----------------------------------------------------------------------------
(* _plot_score, fit_method 'convex' *)

\* The y values of the scores, in tenths.
YValues == {2, 3, 5, 6}

\* curr_y before the first point
InitialCurrY == -99999

\* The orders of the indices 1..n.
IndexOrders(n) == {f \in [1..n -> 1..n] : \A i, j \in 1..n : f[i] = f[j] => i = j}

\* np.argsort(x): an order of the indices that sorts x.  The default sort is
\* not stable, so equal x may come in any order.
Argsort(x) ==
    {f \in IndexOrders(Len(x)) : \A i, j \in 1..Len(x) : i < j => x[f[i]] <= x[f[j]]}

\* The loop over zip(x, y) of the 'convex' branch, from point i on.
RECURSIVE ConvexLoop(_, _, _, _, _)
ConvexLoop(x, y, i, curr_x, curr_y) ==
    IF i > Len(x) THEN << >>
    ELSE LET new_x == IF x[i] # curr_x THEN x[i] ELSE curr_x
             new_y == IF x[i] # curr_x THEN y[i]
                      ELSE IF y[i] > curr_y THEN y[i] ELSE curr_y
         IN <<new_y>> \o ConvexLoop(x, y, i + 1, new_x, new_y)

ConvexFit(x, y) == ConvexLoop(x, y, 1, 0, InitialCurrY)

InitPlot ==
    \E n \in 1..MaxPoints :
        \E x \in [1..n -> 0..MaxX], y \in [1..n -> YValues] :
            plot = [pc |-> "called", x |-> x, y |-> y]

\* _plot_score(x, y, ..., fit_method='convex'): sort the points by x and draw
\* the line (x, y_fit).
PlotScoreConvex ==
    /\ plot.pc = "called"
    /\ \E indices \in Argsort(plot.x) :
          LET x == [i \in 1..Len(plot.x) |-> plot.x[indices[i]]]
              y == [i \in 1..Len(plot.y) |-> plot.y[indices[i]]]
          IN plot' = [pc |-> "drawn", x |-> x, y |-> y, y_fit |-> ConvexFit(x, y)]
    /\ UNCHANGED <<adapterVars, image, reportVars>>

InitSpecPlot == IdleAdapter /\ InitPlot /\ IdleImage /\ InitReport

SpecPlot == InitSpecPlot /\ [][PlotScoreConvex]_vars

RECURSIVE MaxOf(_, _)
MaxOf(q, n) == IF n = 1 THEN q[1] ELSE IF q[n] > MaxOf(q, n - 1) THEN q[n] ELSE MaxOf(q, n - 1)

\* C3: the line drawn by the 'convex' policy is the running maximum of y over
\* the points in ascending x-order: it keeps its value until a larger y is
\* seen and never falls; for ascending x with y = 0.2, 0.5, 0.3, 0.6 it is
\* 0.2, 0.5, 0.5, 0.6.
C3_ConvexIsRunningMaximum ==
    plot.pc = "drawn" =>
        /\ \A i \in 1..Len(plot.y_fit) : plot.y_fit[i] = MaxOf(plot.y, i)
        /\ \A i \in 1..(Len(plot.y_fit) - 1) : plot.y_fit[i] <= plot.y_fit[i + 1]
        /\ (plot.x = <<0, 1, 2, 3>> /\ plot.y = <<2, 5, 3, 6>>) => plot.y_fit = <<2, 5, 5, 6>>

\* What the code draws for the points of C3's example.
C3_ExampleAsDrawn ==
    (plot.pc = "drawn" /\ plot.x = <<0, 1, 2, 3>> /\ plot.y = <<2, 5, 3, 6>>)
        => plot.y_fit = <<2, 5, 3, 6>>

----------------------------------------------------------------------------
(* _load_image *)

\* The modes of the image files.
Modes == {"L", "RGB", "P"}

\* Image.new(mode, size): an image of that mode and size, every pixel black.
ImageNew(mode, size) ==
    [mode |-> mode, size |-> size,
     pixels |-> [i \in 1..(size[1] * size[2]) |-> IF mode = "RGB" THEN <<0, 0, 0>> ELSE 0]]

\* A grey value of a source pixel as a pixel of an image of mode `mode`.
ConvertPixel(px, from, mode) ==
    IF from = mode THEN px
    ELSE IF mode = "RGB" THEN <<px, px, px>> ELSE px

\* dest.paste(source): the pixels of source, converted to the mode of dest, over
\* dest from its top left corner; the images here have the same size.
ImagePaste(dest, source) ==
    [dest EXCEPT !.pixels =
        [i \in DOMAIN dest.pixels |-> ConvertPixel(source.pixels[i], source.mode, dest.mode)]]

\* image.copy()
ImageCopy(im) == im

\* The code of the else branch: the name image is bound to the new image
\* before paste, so the new image is pasted onto itself.
ConvertGrayscale(opened) ==
    LET new == ImageNew("RGB", opened.size)
    IN ImagePaste(new, new)

\* _load_image(image_filepath), on the opened image file
load_image(opened) ==
    IF opened.mode # "L" THEN ImageCopy(opened) ELSE ConvertGrayscale(opened)

InitImage ==
    \E mode \in Modes, w \in 1..MaxSide, h \in 1..MaxSide :
        \E pixels \in [1..(w * h) -> {0, 1}] :
            image = [pc |-> "file", file |-> [mode |-> mode, size |-> <<w, h>>, pixels |-> pixels]]

LoadImage ==
    /\ image.pc = "file"
    /\ image' = [pc |-> "loaded", file |-> image.file, returned |-> load_image(image.file)]
    /\ UNCHANGED <<adapterVars, plot, reportVars>>

InitSpecImage == IdleAdapter /\ IdlePlot /\ InitImage /\ InitReport

SpecImage == InitSpecImage /\ [][LoadImage]_vars

\* C10: for a grayscale file _load_image returns an RGB image of the same size
\* whose pixels carry the grey values of the file; for any other mode it
\* returns an image equal to the opened one.
C10_LoadImageKeepsContent ==
    image.pc = "loaded" =>
        IF image.file.mode = "L"
        THEN /\ image.returned.mode = "RGB"
             /\ image.returned.size = image.file.size
             /\ \A i \in DOMAIN image.file.pixels :
                   image.returned.pixels[i] =
                       <<image.file.pixels[i], image.file.pixels[i], image.file.pixels[i]>>
        ELSE image.returned = image.file

\* What the code returns for a grayscale file: a black image.
C10_GrayscaleComesOutBlack ==
    (image.pc = "loaded" /\ image.file.mode = "L") =>
        /\ image.returned.mode = "RGB"
        /\ image.returned.size = image.file.size
        /\ \A i \in DOMAIN image.returned.pixels : image.returned.pixels[i] = <<0, 0, 0>>

----------------------------------------------------------------------------
(* global_score.py: the metadata and the scores *)

\* Numbers are held in ten-thousandths: One is 1.0.
One == 10000

\* np.nan
NaN == -1

\* models.csv as read into model_meta, in file order: top1, behav_r, depth,
\* nonlins, flops (in millions) and num_params (in millions) per model,
\* behav_r empty for one of them, and the number of entries its bibtex string
\* parses to: none for one model, two for another.
model_meta ==
    << [model |-> "alexnet",   top1 |-> 5700, behav_r |-> 9000, bibtex |-> 1,
        depth |-> 8,  nonlins |-> 7,  flops |-> 720,  num_params |-> 61],
       [model |-> "resnet-18", top1 |-> 6976, behav_r |-> 5000, bibtex |-> 1,
        depth |-> 18, nonlins |-> 17, flops |-> 1800, num_params |-> 12],
       [model |-> "vgg-16",    top1 |-> 7150, behav_r |-> 7000, bibtex |-> 1,
        depth |-> 16, nonlins |-> 15, flops |-> 15500, num_params |-> 138],
       [model |-> "basenet",   top1 |-> 6000, behav_r |-> 9000, bibtex |-> 1,
        depth |-> 6,  nonlins |-> 6,  flops |-> 500,  num_params |-> 5],
       [model |-> "mobilenet", top1 |-> 7090, behav_r |-> NaN,  bibtex |-> 0,
        depth |-> 28, nonlins |-> 27, flops |-> 569,  num_params |-> 4],
       [model |-> "densenet",  top1 |-> 7443, behav_r |-> 6000, bibtex |-> 2,
        depth |-> 121, nonlins |-> 120, flops |-> 2800, num_params |-> 8],
       [model |-> "cornet",    top1 |-> 7000, behav_r |-> 7000, bibtex |-> 1,
        depth |-> 4,  nonlins |-> 4,  flops |-> 700,  num_params |-> 2] >>

MetaModels == {model_meta[i].model : i \in 1..Len(model_meta)}

MetaRow(name) == model_meta[CHOOSE i \in 1..Len(model_meta) : model_meta[i].model = name]

\* model_performance: top1 of every row of model_meta, then the two entries
\* set by hand.
model_performance ==
    [m \in MetaModels \cup {"alexnet", "squeezenet"} |->
        IF m = "alexnet" THEN One - 4233
        ELSE IF m = "squeezenet" THEN 5750
        ELSE MetaRow(m).top1]

\* model_behavior: behav_r of every row of model_meta.
model_behavior == [m \in MetaModels |-> MetaRow(m).behav_r]

\* The models a caller may name.
ModelNames == MetaModels \cup {"squeezenet"}

\* 'basenet' is the only name here that starts with 'basenet'.
StartsWithBasenet(name) == name = "basenet"

\* score_physiology(...).aggregation.max(dim='layer'), center, per region.
NeuralCenter(name, region) ==
    IF region = "V4"
    THEN (IF name \in {"alexnet", "resnet-18"} THEN 6000
          ELSE IF name = "basenet" THEN 6500 ELSE 5000)
    ELSE (IF name = "vgg-16" THEN 5500
          ELSE IF name = "basenet" THEN 5800 ELSE 4500)

NeuralColumns ==
    <<"model", "neural: None-V4-neural_fit", "neural-error: None-V4-neural_fit",
      "neural: None-IT-neural_fit", "neural-error: None-IT-neural_fit">>

\* The frame parse_neural_data builds: one row per requested model.
ScoreModels(models) ==
    [columns |-> NeuralColumns,
     rows |-> [i \in 1..Len(models) |->
                 [model |-> models[i], v4 |-> NeuralCenter(models[i], "V4"),
                  it |-> NeuralCenter(models[i], "IT")]]]

\* data.to_csv(savepath): the frame with its index as a first, unnamed column.
ToCsv(frame) == [exists |-> TRUE, columns |-> <<"">> \o frame.columns, rows |-> frame.rows]

\* pd.read_csv(savepath): the unnamed first column is named 'Unnamed: 0'.
ReadCsv(file) ==
    [columns |-> <<"Unnamed: 0">> \o Tail(file.columns), rows |-> file.rows]

\* A parse_neural_data that computes the scores whether or not the file exists.
ParseAlwaysRecomputes(models, file) ==
    [frame |-> ScoreModels(models), scored |-> models, file |-> ToCsv(ScoreModels(models)),
     wrote |-> <<"neural.csv">>]

\* parse_neural_data(models): the frame returned, the models score_physiology
\* was called for, and neural.csv afterwards.
parse_neural_data(models, file) ==
    IF file.exists
    THEN [frame |-> ReadCsv(file), scored |-> << >>, file |-> file, wrote |-> << >>]
    ELSE [frame |-> ScoreModels(models), scored |-> models,
          file |-> ToCsv(ScoreModels(models)), wrote |-> <<"neural.csv">>]

----------------------------------------------------------------------------
(* prepare_data: the score columns *)

RECURSIVE SumSeq(_, _)
SumSeq(q, n) == IF n = 0 THEN 0 ELSE q[n] + SumSeq(q, n - 1)

\* np.mean of one row of global_scores: NaN when a component is NaN.
Mean(q) ==
    IF \E i \in 1..Len(q) : q[i] = NaN THEN NaN ELSE SumSeq(q, Len(q)) \div Len(q)

\* [model_behavior[model] if model in model_behavior else np.nan
\*  for model in data['model'] if model != 'cornet'], from row i on
RECURSIVE I2nList(_, _)
I2nList(rows, i) ==
    IF i > Len(rows) THEN << >>
    ELSE IF rows[i].model = "cornet" THEN I2nList(rows, i + 1)
    ELSE <<IF rows[i].model \in DOMAIN model_behavior
           THEN model_behavior[rows[i].model] ELSE NaN>> \o I2nList(rows, i + 1)

\* data['i2n'][data['model'] == model].values[0]: i2n of the first row of the model
FirstI2n(rows, i2n, name) ==
    i2n[CHOOSE i \in 1..Len(rows) :
           /\ rows[i].model = name
           /\ \A j \in 1..(i - 1) : rows[j].model # name]

\* A global score that also takes the mean of the two neural scores.
GlobalScoresWithNeural(rows, i2n, i) ==
    <<IF rows[i].v4 = NaN \/ rows[i].it = NaN THEN NaN ELSE (rows[i].v4 + rows[i].it) \div 2,
      FirstI2n(rows, i2n, rows[i].model)>>

\* The row of global_scores for row i of data: the behavioral score alone.
GlobalScores(rows, i2n, i) == <<FirstI2n(rows, i2n, rows[i].model)>>

\* data[data['model'].isin(models)], from row i on
RECURSIVE IsIn(_, _, _)
IsIn(rows, models, i) ==
    IF i > Len(rows) THEN << >>
    ELSE (IF \E k \in 1..Len(models) : models[k] = rows[i].model THEN <<rows[i]>> ELSE << >>)
         \o IsIn(rows, models, i + 1)

\* The values of a column that are not NaN, largest first or smallest first.
RECURSIVE SortedValues(_, _)
SortedValues(S, ascending) ==
    IF S = {} THEN << >>
    ELSE LET first == CHOOSE i \in S : \A j \in S :
                         IF ascending THEN i[2] <= j[2] ELSE i[2] >= j[2]
         IN <<first[2]>> \o SortedValues(S \ {first}, ascending)

\* Series.rank(ascending=...), method 'average': the mean of the places the
\* value takes in the sorted column; NaN keeps NaN.  Twice the rank is held,
\* so that the rank of a tie stays a whole number.
Rank2(values, ascending) ==
    LET sorted == SortedValues({<<i, values[i]>> : i \in {k \in 1..Len(values) : values[k] # NaN}},
                               ascending)
        places(v) == {p \in 1..Len(sorted) : sorted[p] = v}
        least(P) == CHOOSE p \in P : \A q \in P : p <= q
        most(P) == CHOOSE p \in P : \A q \in P : p >= q
    IN [i \in 1..Len(values) |->
          IF values[i] = NaN THEN NaN ELSE least(places(values[i])) + most(places(values[i]))]

\* A rank that counts from the smallest score.
RankAscending(values) == Rank2(values, TRUE)

\* data['global'].rank(ascending=False)
RankDescending(values) == Rank2(values, FALSE)

\* data.merge(model_meta[['model', 'link', 'bibtex']], on='model'): the rows
\* whose model is in model_meta, in their order, with the columns of model_meta.
RECURSIVE Merge(_, _)
Merge(rows, i) ==
    IF i > Len(rows) THEN << >>
    ELSE (IF rows[i].model \in MetaModels
          THEN <<[model |-> rows[i].model, v4 |-> rows[i].v4, it |-> rows[i].it,
                  i2n |-> rows[i].i2n, performance |-> rows[i].performance,
                  global |-> rows[i].global, rank2 |-> rows[i].rank2,
                  bibtex |-> MetaRow(rows[i].model).bibtex]>>
          ELSE << >>)
         \o Merge(rows, i + 1)

\* Lines 113 to 126 of prepare_data on the frame parse_neural_data returned:
\* the columns i2n, performance, global and rank, and the merge.
ScoreColumns(neural, models) ==
    LET i2n == I2nList(neural.rows, 1)
    IN IF Len(i2n) # Len(neural.rows)
       THEN [error |-> "ValueError"]
       ELSE IF \E i \in 1..Len(neural.rows) : neural.rows[i].model \notin DOMAIN model_performance
       THEN [error |-> "KeyError"]
       ELSE LET all == [i \in 1..Len(neural.rows) |->
                          [model |-> neural.rows[i].model, v4 |-> neural.rows[i].v4,
                           it |-> neural.rows[i].it, i2n |-> i2n[i],
                           performance |-> 100 * model_performance[neural.rows[i].model],
                           global |-> Mean(GlobalScores(neural.rows, i2n, i))]]
                kept == IsIn(all, models, 1)
                rank == RankDescending([i \in 1..Len(kept) |-> kept[i].global])
                data == [i \in 1..Len(kept) |->
                           [model |-> kept[i].model, v4 |-> kept[i].v4, it |-> kept[i].it,
                            i2n |-> kept[i].i2n, performance |-> kept[i].performance,
                            global |-> kept[i].global, rank2 |-> rank[i]]]
            IN [error |-> "", data |-> data, merged |-> Merge(data, 1)]

----------------------------------------------------------------------------
(* prepare_data: the fixture and the LaTeX table *)

\* A row with a missing value in one of its columns.
HasNaN(row) ==
    \E v \in {row.v4, row.it, row.i2n, row.performance, row.global, row.rank2,
              row.bibtex} : v = NaN

\* data.dropna(), from row i on
RECURSIVE DropNa(_, _)
DropNa(rows, i) ==
    IF i > Len(rows) THEN << >>
    ELSE (IF HasNaN(rows[i]) THEN << >> ELSE <<rows[i]>>) \o DropNa(rows, i + 1)

\* A _create_fixture that parses the bibtex of every row, dropna or not.
FixtureWithoutDropNa(rows) ==
    IF \E i \in 1..Len(rows) : rows[i].bibtex # 1
    THEN [error |-> "AssertionError"]
    ELSE [error |-> "",
          file |-> [exists |-> TRUE,
                    rows |-> [i \in 1..Len(rows) |->
                                [name |-> rows[i].model, brain_score |-> rows[i].global,
                                 behavior |-> rows[i].i2n]]]]

\* _create_fixture(data): parse_bib asserts one entry per row that dropna
\* keeps; then fixture.json holds one object per such row.
create_fixture(rows) ==
    LET kept == DropNa(rows, 1)
    IN IF \E i \in 1..Len(kept) : kept[i].bibtex # 1
       THEN [error |-> "AssertionError"]
       ELSE [error |-> "",
             file |-> [exists |-> TRUE,
                       rows |-> [i \in 1..Len(kept) |->
                                   [name |-> kept[i].model, brain_score |-> kept[i].global,
                                    behavior |-> kept[i].i2n]]]]

\* data[[not model.startswith('basenet') for model in data['model']]], from row i on
RECURSIVE NotBasenet(_, _)
NotBasenet(rows, i) ==
    IF i > Len(rows) THEN << >>
    ELSE (IF StartsWithBasenet(rows[i].model) THEN << >> ELSE <<rows[i]>>)
         \o NotBasenet(rows, i + 1)

\* table.sort_values('global', ascending=False): an order of the rows by
\* falling global score with the NaN rows last.  The default sort is not
\* stable, so rows of equal score may come in any order.
SortOrders(rows) ==
    {f \in IndexOrders(Len(rows)) :
        \A i, j \in 1..Len(rows) : i < j =>
            \/ rows[f[j]].global = NaN
            \/ (rows[f[i]].global # NaN /\ rows[f[i]].global >= rows[f[j]].global)}

Num(x) == [str |-> FALSE, x |-> x]
Str(x) == [str |-> TRUE, x |-> x]

\* The columns of the table, each the values of its rows.
TableColumns(rows) ==
    << [name |-> "Mean Score", values |-> [i \in 1..Len(rows) |-> Num(rows[i].global)]],
       [name |-> "model", values |-> [i \in 1..Len(rows) |-> Str(rows[i].model)]],
       [name |-> "performance", values |-> [i \in 1..Len(rows) |-> Num(rows[i].performance)]],
       [name |-> "neural: None-V4-neural_fit", values |-> [i \in 1..Len(rows) |-> Num(rows[i].v4)]],
       [name |-> "neural: None-IT-neural_fit", values |-> [i \in 1..Len(rows) |-> Num(rows[i].it)]],
       [name |-> "i2n", values |-> [i \in 1..Len(rows) |-> Num(rows[i].i2n)]] >>

\* data.max() of a numeric column: the largest value that is not NaN, NaN if
\* there is none.
ColumnMax(values) ==
    LET S == {values[i].x : i \in 1..Len(values)} \ {NaN}
    IN IF S = {} THEN NaN ELSE CHOOSE m \in S : \A v \in S : m >= v

\* A mark on the first maximum only.
IsMaxFirstOnly(values) ==
    [i \in 1..Len(values) |->
        /\ values[i].x # NaN
        /\ values[i].x = ColumnMax(values)
        /\ \A j \in 1..(i - 1) : values[j].x # values[i].x]

\* is_max = data == data.max(): NaN equals nothing.
IsMax(values) ==
    [i \in 1..Len(values) |-> values[i].x # NaN /\ values[i].x = ColumnMax(values)]

\* The format of a number: '{:.0f}' if every value of the column is whole,
\* else '{:.2f}' above 1 and '{:.03f}' without its leading zeros otherwise.
FormatNumber(x, all_ints) ==
    [fmt |-> IF all_ints THEN "0f" ELSE IF x # NaN /\ x > One THEN "2f" ELSE "03f", x |-> x]

\* highlight_max(data) on one column: the cells of the column as written.
highlight_max(values) ==
    IF Len(values) = 0 THEN << >>
    ELSE IF values[1].str
    THEN [i \in 1..Len(values) |-> [text |-> [fmt |-> "escaped", x |-> values[i].x],
                                    bold |-> FALSE]]
    ELSE LET is_max == IsMax(values)
             all_ints == \A i \in 1..Len(values) : values[i].x # NaN /\ values[i].x % One = 0
         IN [i \in 1..Len(values) |->
               [text |-> FormatNumber(values[i].x, all_ints), bold |-> is_max[i]]]

\* _create_latex_table(data) with the rows sorted in the order f: data.tex.
create_latex_table(rows, f) ==
    LET table == [i \in 1..Len(rows) |-> rows[f[i]]]
        columns == TableColumns(table)
    IN [exists |-> TRUE,
        rows |-> table,
        columns |-> [c \in 1..Len(columns) |->
                       [name |-> columns[c].name, cells |-> highlight_max(columns[c].values)]]]

\* prepare_data(models, neural_data)
PrepareData(models) ==
    LET parsed == parse_neural_data(models, files.neural)
        scores == ScoreColumns(parsed.frame, models)
        call == [models |-> models, had_cache |-> files.neural.exists,
                 scored |-> parsed.scored, neural |-> parsed.frame]
        n == run.n + 1
    IN IF scores.error # ""
       THEN /\ files' = [files EXCEPT !.neural = parsed.file]
            /\ run' = [pc |-> "raised", n |-> n, error |-> scores.error, call |-> call,
                       data |-> << >>, merged |-> << >>, wrote |-> parsed.wrote]
       ELSE LET fixture == create_fixture(scores.merged)
            IN IF fixture.error # ""
               THEN /\ files' = [files EXCEPT !.neural = parsed.file]
                    /\ run' = [pc |-> "raised", n |-> n, error |-> fixture.error, call |-> call,
                               data |-> scores.data, merged |-> scores.merged,
                               wrote |-> parsed.wrote]
               ELSE \E f \in SortOrders(NotBasenet(scores.merged, 1)) :
                       /\ files' = [neural |-> parsed.file, fixture |-> fixture.file,
                                    tex |-> create_latex_table(NotBasenet(scores.merged, 1), f)]
                       /\ run' = [pc |-> "returned", n |-> n, error |-> "", call |-> call,
                                  data |-> scores.data, merged |-> scores.merged,
                                  wrote |-> parsed.wrote \o <<"fixture.json", "data.tex">>]

NextReport ==
    /\ run.n < MaxRuns
    /\ \E models \in SeqsUpTo(ModelNames, MaxModels) \ {<< >>} : PrepareData(models)
    /\ UNCHANGED <<adapterVars, plot, image, script>>

InitSpecReport == IdleAdapter /\ IdlePlot /\ IdleImage /\ InitReport

SpecReport == InitSpecReport /\ [][NextReport]_vars

----------------------------------------------------------------------------
(* Properties of prepare_data *)

\* The frames of the last call that carry ranks: data as ranked, and data as
\* merged with model_meta, which is what prepare_data returns.
RankedFrames == IF run.pc = "idle" THEN {} ELSE {run.data, run.merged}

Globals(frame) == [i \in 1..Len(frame) |-> frame[i].global]

DistinctScores(frame) ==
    /\ \A i \in 1..Len(frame) : frame[i].global # NaN
    /\ \A i, j \in 1..Len(frame) : i # j => frame[i].global # frame[j].global

\* C6: when the global scores of the rows are all present and pairwise
\* distinct, the rank of a row is 1 plus the number of rows with a larger
\* global score, and the ranks are a permutation of 1..n; for the global
\* scores 0.9, 0.5, 0.7 the ranks are 1, 3, 2.  (rank2 is twice the rank.)
C6_RankDescendingByGlobal ==
    \A frame \in RankedFrames :
        DistinctScores(frame) =>
            /\ \A i \in 1..Len(frame) :
                  frame[i].rank2 =
                      2 * (1 + Cardinality({j \in 1..Len(frame) :
                                              frame[j].global > frame[i].global}))
            /\ {frame[i].rank2 : i \in 1..Len(frame)} = {2 * k : k \in 1..Len(frame)}
            /\ Globals(frame) = <<9000, 5000, 7000>>
                  => [i \in 1..3 |-> frame[i].rank2] = <<2, 6, 4>>

\* A call that returned a table of three rows with the scores 0.9, 0.5, 0.7,
\* taken from a cache that an earlier call had written.
C6_Witness ==
    /\ run.pc = "returned"
    /\ run.call.had_cache
    /\ Globals(run.merged) = <<9000, 5000, 7000>>

\* C7: in every row of the table the global score is the behavioral score of
\* the row's model, and both are missing for a model without a behavioral
\* entry.
C7_GlobalIsBehavioral ==
    \A frame \in RankedFrames :
        \A i \in 1..Len(frame) :
            /\ frame[i].global = frame[i].i2n
            /\ frame[i].i2n = IF frame[i].model \in MetaModels
                              THEN MetaRow(frame[i].model).behav_r ELSE NaN

\* A call that returned a table with a scored model and a model whose
\* behavioral score is empty, and that had ranked a model outside model_meta.
C7_Witness ==
    /\ run.pc = "returned"
    /\ \E i \in 1..Len(run.merged) : run.merged[i].global = 9000
    /\ \E i \in 1..Len(run.merged) : run.merged[i].global = NaN
    /\ \E i \in 1..Len(run.data) :
          run.data[i].model \notin MetaModels /\ run.data[i].global = NaN

\* C8: a call that found no neural.csv scored every requested model, wrote
\* neural.csv and went on with that table; a call that found neural.csv went
\* on with the contents of the file, scored nothing and left the file; so every
\* call after the first scored nothing.
C8_CacheDecidesRecomputation ==
    run.pc # "idle" =>
        /\ files.neural.exists
        /\ run.call.had_cache
              => /\ run.call.scored = << >>
                 /\ run.call.neural = ReadCsv(files.neural)
                 /\ \A k \in 1..Len(run.wrote) : run.wrote[k] # "neural.csv"
        /\ ~run.call.had_cache
              => /\ run.call.scored = run.call.models
                 /\ [i \in 1..Len(files.neural.rows) |-> files.neural.rows[i].model]
                        = run.call.models
                 /\ run.call.neural.rows = files.neural.rows
                 /\ run.wrote # << >> /\ run.wrote[1] = "neural.csv"
        /\ run.n >= 2 => (run.call.had_cache /\ run.call.scored = << >>)

\* A second call, for models the cache does not hold.
C8_Witness ==
    /\ run.n = 2
    /\ run.call.had_cache
    /\ \E k \in 1..Len(run.call.models) :
          \A i \in 1..Len(files.neural.rows) : files.neural.rows[i].model # run.call.models[k]

\* The value of row i of data.tex in the column of a name.
TexValue(name, i) ==
    LET row == files.tex.rows[i]
    IN IF name = "Mean Score" THEN row.global
       ELSE IF name = "performance" THEN row.performance
       ELSE IF name = "neural: None-V4-neural_fit" THEN row.v4
       ELSE IF name = "neural: None-IT-neural_fit" THEN row.it
       ELSE row.i2n

\* C9: in data.tex an entry of a numeric column is bold exactly if its value
\* is the maximum of the column, so every tied maximum is bold (a missing value
\* is no maximum), and no entry of the model column is bold.
C9_BoldIsColumnMaximum ==
    files.tex.exists =>
        \A c \in 1..Len(files.tex.columns) :
            LET column == files.tex.columns[c]
            IN /\ Len(column.cells) = Len(files.tex.rows)
               /\ \A i \in 1..Len(column.cells) :
                     IF column.name = "model" THEN ~column.cells[i].bold
                     ELSE column.cells[i].bold <=>
                            /\ TexValue(column.name, i) # NaN
                            /\ \A j \in 1..Len(files.tex.rows) :
                                  TexValue(column.name, j) # NaN
                                      => TexValue(column.name, i) >= TexValue(column.name, j)

\* A table of three rows whose V4 column has two bold entries, of different
\* models, and whose score column has a missing value, last and not bold.
C9_Witness ==
    /\ files.tex.exists
    /\ Len(files.tex.rows) = 3
    /\ files.tex.rows[3].global = NaN
    /\ files.tex.columns[1].cells[1].bold
    /\ ~files.tex.columns[1].cells[3].bold
    /\ files.tex.rows[1].model # files.tex.rows[2].model
    /\ \E c \in 1..Len(files.tex.columns) :
          /\ files.tex.columns[c].name = "neural: None-V4-neural_fit"
          /\ files.tex.columns[c].cells[1].bold /\ files.tex.columns[c].cells[2].bold
          /\ ~files.tex.columns[c].cells[3].bold

\* The rows of a frame without a missing value: what dropna keeps.
CompleteRows(rows) == SelectSeq(rows, LAMBDA row : ~HasNaN(row))

\* The place of a file name in the order of the files a call wrote, 0 if the
\* call did not write it.
WroteAt(wrote, name) ==
    IF \E k \in 1..Len(wrote) : wrote[k] = name
    THEN CHOOSE k \in 1..Len(wrote) : wrote[k] = name
    ELSE 0

\* C12: a prepare_data call that comes to _create_fixture with a row without
\* missing values whose bibtex string does not parse to exactly one entry ends
\* in an assertion failure and leaves fixture.json and data.tex as they were;
\* when every row without missing values parses to one entry, the call writes
\* fixture.json and then data.tex.
C12_BibtexAssertion ==
    [][(run'.n = run.n + 1 /\ run'.error \notin {"ValueError", "KeyError"}) =>
          IF \E i \in 1..Len(CompleteRows(run'.merged)) :
                 CompleteRows(run'.merged)[i].bibtex # 1
          THEN /\ run'.pc = "raised"
               /\ run'.error = "AssertionError"
               /\ files'.fixture = files.fixture
               /\ files'.tex = files.tex
               /\ WroteAt(run'.wrote, "fixture.json") = 0
               /\ WroteAt(run'.wrote, "data.tex") = 0
          ELSE /\ run'.pc = "returned"
               /\ files'.fixture.exists
               /\ files'.tex.exists
               /\ 0 < WroteAt(run'.wrote, "fixture.json")
               /\ WroteAt(run'.wrote, "fixture.json") < WroteAt(run'.wrote, "data.tex")
      ]_vars

\* A call that failed the assertion on a table that held a row of two bibtex
\* entries, a row of one entry, and a row with a missing value whose bibtex
\* string has no entry.
C12_Witness ==
    /\ run.pc = "raised"
    /\ run.error = "AssertionError"
    /\ \E i \in 1..Len(run.merged) : HasNaN(run.merged[i]) /\ run.merged[i].bibtex = 0
    /\ \E i \in 1..Len(run.merged) : ~HasNaN(run.merged[i]) /\ run.merged[i].bibtex = 1

----------------------------------------------------------------------------
(* plot_all and the direct script run *)

model_depth == [m \in MetaModels |-> MetaRow(m).depth]
model_nonlins == [m \in MetaModels |-> MetaRow(m).nonlins]
model_flops == [m \in MetaModels |-> MetaRow(m).flops]
model_params == [m \in MetaModels |-> MetaRow(m).num_params]

\* The run table of the script, in the order of the dictionary's items.
runs ==
    << [label |-> "performance", mode |-> "PERFORMANCE_VS_SCORE"],
       [label |-> "depth",       mode |-> "DEPTH_VS_SCORE"],
       [label |-> "nonlins",     mode |-> "NONLINS_VS_SCORE"],
       [label |-> "flops",       mode |-> "FLOPS_VS_SCORE"],
       [label |-> "numparams",   mode |-> "PARAMS_VS_SCORE"] >>

\* [table[model] for model in models], then data['x'] = x: a model that is no
\* key raises KeyError, a list of another length than data raises ValueError.
ListColumn(table, models, data) ==
    IF \E i \in 1..Len(models) : models[i] \notin DOMAIN table
    THEN [error |-> "KeyError"]
    ELSE IF Len(models) # Len(data)
    THEN [error |-> "ValueError"]
    ELSE [error |-> "", x |-> [i \in 1..Len(models) |-> table[models[i]]]]

\* The mode branches of plot_all (the script passes no YEAR_VS_SCORE): x and
\* the label of the x-axis.
XColumn(mode, models, data) ==
    IF mode = "PERFORMANCE_VS_SCORE"
    THEN [error |-> "", x |-> [i \in 1..Len(data) |-> data[i].performance],
          xlabel |-> "Imagenet performance (% top-1)"]
    ELSE IF mode = "DEPTH_VS_SCORE"
    THEN [xlabel |-> "Model depth"] @@ ListColumn(model_depth, models, data)
    ELSE IF mode = "NONLINS_VS_SCORE"
    THEN [xlabel |-> "Model non-linearities"] @@ ListColumn(model_nonlins, models, data)
    ELSE IF mode = "FLOPS_VS_SCORE"
    THEN [xlabel |-> "FLOPs"] @@ ListColumn(model_flops, models, data)
    ELSE IF mode = "PARAMS_VS_SCORE"
    THEN [xlabel |-> "Model params"] @@ ListColumn(model_params, models, data)
    ELSE [error |-> "ValueError"]

\* plot_neural on data[nonbasenets] for one region: the points scattered; with
\* fit_method None no line is drawn.
RECURSIVE NeuralPoints(_, _, _, _)
NeuralPoints(data, x, region, i) ==
    IF i > Len(data) THEN << >>
    ELSE (IF StartsWithBasenet(data[i].model) THEN << >>
          ELSE <<[x |-> x[i], y |-> IF region = "V4" THEN data[i].v4 ELSE data[i].it]>>)
         \o NeuralPoints(data, x, region, i + 1)

\* The figures plot_all returns for the frame prepare_data returned: the
\* function returns after the neural figure, so figs has the one key
\* 'neural-None'.
PlotAllFigs(models, mode, logx, data) ==
    LET col == XColumn(mode, models, data)
    IN IF col.error # "" THEN [error |-> col.error]
       ELSE [error |-> "",
             figs |-> <<[name |-> "neural-None", xlabel |-> col.xlabel, logx |-> logx,
                         ylabel |-> "neural: neural_fit",
                         V4 |-> NeuralPoints(data, col.x, "V4", 1),
                         IT |-> NeuralPoints(data, col.x, "IT", 1)]>>]

\* A savepath that always ends in .svg.
SavePathSvgOnly(label, name, extension) == <<"results/scores/", label, "-", name, ".", "svg">>

\* 'results/scores/{}-{}.svg'.format(label, name), and the same with .pdf
savepath(label, name, extension) == <<"results/scores/", label, "-", name, ".", extension>>

\* The format savefig writes when it is given none: the extension of the path.
FormatOf(path) == path[Len(path)]

\* The script is started: models = get_models(), fit = None; neural.csv is
\* absent or left by an earlier run.
InitScript ==
    /\ files \in {[neural |-> cache, fixture |-> NoFile, tex |-> NoFile] :
                     cache \in {NoFile} \cup {ToCsv(ScoreModels(cached)) :
                                   cached \in SeqsUpTo(ModelNames, MaxCached) \ {<< >>}}}
    /\ run = [pc |-> "idle", n |-> 0]
    /\ script \in {[pc |-> "runs", models |-> models, calls |-> << >>, todo |-> << >>,
                     saved |-> << >>, error |-> ""] :
                       models \in SeqsUpTo(ModelNames, MaxModels) \ {<< >>}}

\* for label, mode in runs.items(): figs = plot_all(models, mode=mode,
\* fit_method=fit, logx=label not in ['performance'], ...).  An exception of
\* prepare_data or plot_all ends the script.
ScriptPlotAll ==
    /\ script.pc = "runs"
    /\ Len(script.calls) < Len(runs)
    /\ LET entry == runs[Len(script.calls) + 1]
           logx == entry.label # "performance"
           call == [label |-> entry.label, mode |-> entry.mode, logx |-> logx,
                    fit_method |-> "None", models |-> script.models]
       IN /\ PrepareData(script.models)
          /\ LET out == IF run'.pc = "raised" THEN [error |-> run'.error]
                        ELSE PlotAllFigs(script.models, entry.mode, logx, run'.merged)
             IN script' =
                  IF out.error # ""
                  THEN [script EXCEPT !.pc = "raised", !.error = out.error,
                            !.calls = Append(@, call @@ [raised |-> TRUE, figs |-> << >>])]
                  ELSE [script EXCEPT !.pc = IF out.figs = << >> THEN "runs" ELSE "svg",
                            !.todo = out.figs,
                            !.calls = Append(@, call @@ [raised |-> FALSE, figs |-> out.figs])]
    /\ UNCHANGED <<adapterVars, plot, image>>

\* fig.savefig(savepath, format='svg') for the next item of figs
ScriptSaveSvg ==
    /\ script.pc = "svg"
    /\ LET label == script.calls[Len(script.calls)].label
           fig == script.todo[1]
       IN script' = [script EXCEPT !.pc = "pdf",
                        !.saved = Append(@, [path |-> savepath(label, fig.name, "svg"),
                                             format |-> "svg", fig |-> fig])]
    /\ UNCHANGED <<adapterVars, plot, image, files, run>>

\* fig.savefig(savepath) with the .pdf path, then the next item of figs or
\* the next entry of runs
ScriptSavePdf ==
    /\ script.pc = "pdf"
    /\ LET label == script.calls[Len(script.calls)].label
           fig == script.todo[1]
           path == savepath(label, fig.name, "pdf")
       IN script' = [script EXCEPT !.pc = IF Tail(script.todo) = << >> THEN "runs" ELSE "svg",
                        !.todo = Tail(@),
                        !.saved = Append(@, [path |-> path, format |-> FormatOf(path),
                                             fig |-> fig])]
    /\ UNCHANGED <<adapterVars, plot, image, files, run>>

\* The loop over runs is through: the script ends.
ScriptExit ==
    /\ script.pc = "runs"
    /\ Len(script.calls) = Len(runs)
    /\ script' = [script EXCEPT !.pc = "done"]
    /\ UNCHANGED <<adapterVars, plot, image, files, run>>

NextScript == ScriptPlotAll \/ ScriptSaveSvg \/ ScriptSavePdf \/ ScriptExit

InitSpecScript == IdleAdapter /\ IdlePlot /\ IdleImage /\ InitScript

SpecScript == InitSpecScript /\ [][NextScript]_vars

----------------------------------------------------------------------------
(* Properties of the script run *)

\* The x-axes the script configures: ImageNet accuracy, depth, nonlinearity
\* count, FLOPs and parameter count.
ScriptModes ==
    {"PERFORMANCE_VS_SCORE", "DEPTH_VS_SCORE", "NONLINS_VS_SCORE", "FLOPS_VS_SCORE",
     "PARAMS_VS_SCORE"}

ScriptAxes ==
    {"Imagenet performance (% top-1)", "Model depth", "Model non-linearities", "FLOPs",
     "Model params"}

\* The save operations so far that wrote a figure in a format, to a path of
\* that extension.
SavesOf(fig, format) ==
    {k \in 1..Len(script.saved) :
        /\ script.saved[k].fig = fig
        /\ script.saved[k].format = format
        /\ script.saved[k].path[Len(script.saved[k].path)] = format}

\* The figures the plot_all calls have returned so far.
ReturnedFigs == UNION {Range(script.calls[j].figs) : j \in 1..Len(script.calls)}

====
